---- MODULE Spec2Model ----
(***************************************************************************)
(* Tommy Jeans API (src/main.py): a FastAPI service whose handlers each    *)
(* open one psycopg2 connection, run one SQL statement against the table   *)
(* personas, commit or roll back, and close the connection.                *)
(*                                                                         *)
(* The store is modelled by what the DDL of init_database asks of it:      *)
(* id SERIAL PRIMARY KEY (a sequence that only moves forward and is not    *)
(* rolled back), dni VARCHAR(20) UNIQUE NOT NULL, nombre/apellido          *)
(* VARCHAR(100) NOT NULL, email VARCHAR(255).  Transactions are READ       *)
(* COMMITTED: a statement sees committed rows only, its own writes become  *)
(* visible to others at commit, and a write that meets another             *)
(* transaction's uncommitted write on the same dni waits for it.           *)
(***************************************************************************)
EXTENDS Integers, Sequences, FiniteSets, TLC

\* ---------------------------------------------------------------- bounds

\* Cap on the values drawn from the sequence behind id SERIAL.
MaxSeq == 3

\* ------------------------------------------------------ program constants

DniWidth == 20
NombreWidth == 100
ApellidoWidth == 100
EmailWidth == 255

\* ------------------------------------------------------------ input values

RECURSIVE Rep(_, _)
Rep(s, n) == IF n = 0 THEN "" ELSE s \o Rep(s, n - 1)

\* Optional[str]: None, or a string.
None == [null |-> TRUE]
Some(s) == [null |-> FALSE, val |-> s]

\* A dni and a nombre that fill their columns exactly, and values that are
\* too long for them: by characters that are not spaces, and by one space.
DniB == "B" \o Rep(" ", DniWidth - 1)
NombreB == "Luis" \o Rep(" ", NombreWidth - 4)
LongDni == Rep("9", DniWidth + 1)
LongNombre == Rep("n", NombreWidth + 1)
PadDni == DniB \o " "
PadNombre == NombreB \o " "

\* The two request processes of the concurrent specification.
Workers == {"w1", "w2"}

\* Path parameters {dni}: of the requests that race, and of the requests
\* served one after another.
RacePaths == {"A", DniB}
Paths == RacePaths \cup {LongDni, PadDni}

\* PersonaCreate bodies: of the requests that race, and of the requests
\* served one after another.
RaceBodies ==
    { [dni |-> "A", nombre |-> "Ana", apellido |-> "Diaz", email |-> None],
      [dni |-> DniB, nombre |-> NombreB, apellido |-> "Rey", email |-> Some("l@x.pe")] }

PersonaCreate ==
    RaceBodies \cup
    { [dni |-> LongDni, nombre |-> "Ana", apellido |-> "Diaz", email |-> None],
      [dni |-> "A", nombre |-> LongNombre, apellido |-> "Rey", email |-> None],
      [dni |-> PadDni, nombre |-> PadNombre, apellido |-> "Rey", email |-> Some("l@x.pe")] }

NoBody == [dni |-> "", nombre |-> "", apellido |-> "", email |-> None]

VARIABLES
    tableExists,  \* whether relation personas exists in the store
    rows,         \* the committed rows of personas
    seq,          \* last value handed out by personas_id_seq
    boot,         \* the startup event running init_database
    req,          \* per worker: the request it is serving
    createOrder,  \* history: ids of committed creates, in commit order
    deleted,      \* history: dnis whose last committed change was a delete
    lastCreate,   \* history: the body and the response of the last committed
                  \*          create, <<>> once an update or delete has committed
    before        \* history: the committed rows when the request being
                  \*          served arrived

vars == <<tableExists, rows, seq, boot, req, createOrder, deleted, lastCreate, before>>

\* The history variables: no handler reads them.
hist == <<createOrder, deleted, lastCreate, before>>

\* ------------------------------------------------------------- the store

\* VARCHAR(n), on assignment: a value of at most n characters is stored as
\* it is; a longer one is refused, unless the characters beyond n are all
\* spaces, and then it is cut to n characters.
VarcharOk(v, n) ==
    IF Len(v) <= n THEN TRUE
    ELSE SubSeq(v, n + 1, Len(v)) = Rep(" ", Len(v) - n)

Varchar(v, n) == IF Len(v) <= n THEN v ELSE SubSeq(v, 1, n)

\* The same for a nullable column: NULL is stored as NULL.
OptVarcharOk(e, n) == IF e.null THEN TRUE ELSE VarcharOk(e.val, n)

OptVarchar(e, n) == IF e.null THEN e ELSE Some(Varchar(e.val, n))

\* The column widths of the DDL, applied to the values an INSERT assigns.
FitsInsert(b) ==
    /\ VarcharOk(b.dni, DniWidth)
    /\ VarcharOk(b.nombre, NombreWidth)
    /\ VarcharOk(b.apellido, ApellidoWidth)
    /\ OptVarcharOk(b.email, EmailWidth)

\* The column widths applied to the values an UPDATE assigns (SET nombre,
\* apellido, email); the dni of the WHERE clause is only compared.
FitsUpdate(b) ==
    /\ VarcharOk(b.nombre, NombreWidth)
    /\ VarcharOk(b.apellido, ApellidoWidth)
    /\ OptVarcharOk(b.email, EmailWidth)

\* Whether a committed row carries exactly this dni (for the history).
Present(dni) == \E r \in rows : r.dni = dni

\* Mutants of Matching: every row matches; the parameter is cut to the
\* column width before it is compared.
MatchingAll(rs, dni) == rs

MatchingCut(rs, dni) == {r \in rs : r.dni = Varchar(dni, DniWidth)}

\* WHERE dni = %s
Matching(rs, dni) == {r \in rs : r.dni = dni}

\* Mutant of UniqueViolation: no constraint.
UniqueViolationNever(rs, dni) == FALSE

\* dni ... UNIQUE: an insert of a dni that a row already carries is refused.
UniqueViolation(rs, dni) == \E r \in rs : r.dni = dni

\* Mutant of NextVal: one more than the largest id in the table.
NextValMaxId(s) ==
    IF rows = {} THEN 1
    ELSE (CHOOSE m \in {r.id : r \in rows} : \A r \in rows : r.id <= m) + 1

\* id SERIAL: nextval of the sequence.
NextVal(s) == s + 1

\* INSERT INTO personas (dni, nombre, apellido, email) VALUES (...)
InsertRow(id, b) ==
    [id |-> id,
     dni |-> Varchar(b.dni, DniWidth),
     nombre |-> Varchar(b.nombre, NombreWidth),
     apellido |-> Varchar(b.apellido, ApellidoWidth),
     email |-> OptVarchar(b.email, EmailWidth)]

\* Mutant of UpdateRow: the body's dni is written too.
UpdateRowWithDni(old, b) ==
    [old EXCEPT !.dni = Varchar(b.dni, DniWidth),
                !.nombre = Varchar(b.nombre, NombreWidth),
                !.apellido = Varchar(b.apellido, ApellidoWidth),
                !.email = OptVarchar(b.email, EmailWidth)]

\* UPDATE personas SET nombre = %s, apellido = %s, email = %s
UpdateRow(old, b) ==
    [old EXCEPT !.nombre = Varchar(b.nombre, NombreWidth),
                !.apellido = Varchar(b.apellido, ApellidoWidth),
                !.email = OptVarchar(b.email, EmailWidth)]

\* Mutant of SortById: descending.
RECURSIVE SortByIdDesc(_)
SortByIdDesc(rs) ==
    IF rs = {} THEN <<>>
    ELSE LET m == CHOOSE r \in rs : \A q \in rs : r.id >= q.id
         IN <<m>> \o SortByIdDesc(rs \ {m})

\* ORDER BY id
RECURSIVE SortById(_)
SortById(rs) ==
    IF rs = {} THEN <<>>
    ELSE LET m == CHOOSE r \in rs : \A q \in rs : r.id <= q.id
         IN <<m>> \o SortById(rs \ {m})

\* A transaction's uncommitted writes: rows it removes and rows it adds.
NoWrite == [del |-> {}, add |-> {}]

\* Mutant of ApplyWrite: removed rows stay.
ApplyWriteKeep(rs, wr) == rs \cup wr.add

\* connection.commit(): the transaction's writes become the committed rows.
ApplyWrite(rs, wr) == (rs \ wr.del) \cup wr.add

\* The dnis a transaction's uncommitted writes hold locked.
Locked(wr) == {r.dni : r \in wr.del \cup wr.add}

\* Mutant of Blocked: a write never waits.
BlockedNever(w, dni) == FALSE

\* A write on dni by worker w waits while another open transaction holds it.
Blocked(w, dni) ==
    \E v \in Workers \ {w} : req[v].tx = "intrans" /\ dni \in Locked(req[v].write)

\* ------------------------------------------------------------- responses

NoResp == [status |-> 0, detail |-> "", exc |-> "none", body |-> <<>>]
Ok(detail, body) == [status |-> 200, detail |-> detail, exc |-> "none", body |-> body]
HTTPException(status, detail, exc) ==
    [status |-> status, detail |-> detail, exc |-> exc, body |-> <<>>]

Idle ==
    [pc |-> "idle", op |-> "none", dni |-> "", body |-> NoBody, conn |-> "none",
     tx |-> "none", write |-> NoWrite, result |-> <<>>, resp |-> NoResp,
     matched |-> FALSE]

Init ==
    /\ tableExists \in BOOLEAN
    /\ rows = {}
    /\ seq = 0
    /\ boot = [pc |-> "connect", conn |-> "none"]
    /\ req = [w \in Workers |-> Idle]
    /\ createOrder = <<>>
    /\ deleted = {}
    /\ lastCreate = <<>>
    /\ before = {}

\* ----------------------------------------------------- driver behaviour

\* A statement or commit that raises leaves the transaction aborted: its
\* writes are gone and the connection accepts only a rollback.
Raise(r) == [r EXCEPT !.tx = "inerror", !.write = NoWrite]

\* connection.rollback()
Rollback(r) == [r EXCEPT !.tx = "rolledback", !.write = NoWrite]

\* finally: cursor.close(); connection.close().  Closing discards whatever
\* the transaction had not committed.
Close(r) == [r EXCEPT !.conn = "closed", !.write = NoWrite]

\* The handler returns or raises: the request is over with this response.
Respond(r, resp) == [r EXCEPT !.pc = "done", !.resp = resp]

\* Mutant of RollbackAnd500: the rollback is missing.
RollbackAnd500NoRollback(r, exc) ==
    [r EXCEPT !.pc = "done", !.tx = "inerror", !.write = NoWrite, !.conn = "closed",
              !.resp = [status |-> 500, detail |-> "Error en la base de datos",
                        exc |-> exc, body |-> <<>>]]

\* except psycopg2.Error as e: connection.rollback(); raise HTTPException(500)
\* of crear_persona, actualizar_persona and eliminar_persona, then finally.
RollbackAnd500(r, exc) ==
    Close(Respond(Rollback(Raise(r)),
                  HTTPException(500, "Error en la base de datos", exc)))

\* except psycopg2.Error as e: raise HTTPException(500) of listar_personas
\* and obtener_persona_por_dni (no rollback), then finally.
Only500(r, exc) ==
    Close(Respond(Raise(r), HTTPException(500, "Error en la base de datos", exc)))

\* ------------------------------------------------------------- startup

\* init_database, run by startup_event before any request is served.
init_database ==
    \/ /\ boot.pc = "connect"
       /\ \/ boot' = [pc |-> "execute", conn |-> "open"]
          \/ boot' = [pc |-> "done", conn |-> "none"]
       /\ UNCHANGED tableExists
    \/ /\ boot.pc = "execute"
       /\ \/ boot' = [boot EXCEPT !.pc = "commit"]
          \/ boot' = [boot EXCEPT !.pc = "done"]
       /\ UNCHANGED tableExists
    \/ /\ boot.pc = "commit"
       /\ \/ /\ boot' = [pc |-> "done", conn |-> "closed"]
             /\ tableExists' = TRUE
          \/ /\ boot' = [boot EXCEPT !.pc = "done"]
             /\ UNCHANGED tableExists
    /\ UNCHANGED <<rows, seq, req, hist>>

\* ------------------------------------------------------------- requests

\* A request arrives and the handler calls get_db_connection(): either a
\* connection is opened, or HTTPException(500) leaves the handler at once.
get_db_connection(w, op, dni, body) ==
    /\ boot.pc = "done"
    /\ req[w].pc = "idle"
    /\ LET r == [Idle EXCEPT !.op = op, !.dni = dni, !.body = body]
       IN \/ req' = [req EXCEPT ![w] = [r EXCEPT !.pc = "execute", !.conn = "open"]]
          \/ req' = [req EXCEPT ![w] =
                 Respond(r, IF op = "health"
                            THEN Ok("unhealthy", <<>>)
                            ELSE HTTPException(500, "Error conectando a la base de datos",
                                               "OperationalError"))]
    /\ UNCHANGED <<tableExists, rows, seq, boot, createOrder, deleted, lastCreate>>

\* The requests a worker may be sent, with path parameters in paths and
\* bodies in bodies.
Request(w, paths, bodies) ==
    \/ get_db_connection(w, "health", "", NoBody)
    \/ get_db_connection(w, "list", "", NoBody)
    \/ \E b \in bodies : get_db_connection(w, "create", "", b)
    \/ \E d \in paths : get_db_connection(w, "get", d, NoBody)
    \/ \E d \in paths : get_db_connection(w, "delete", d, NoBody)
    \/ \E d \in paths, b \in bodies : get_db_connection(w, "update", d, b)

\* GET /health
health_check(w) ==
    /\ req[w].pc = "execute" /\ req[w].op = "health"
    /\ \/ req' = [req EXCEPT ![w] = Close(Respond(@, Ok("healthy", <<>>)))]
       \/ req' = [req EXCEPT ![w] = Respond(Raise(@), Ok("unhealthy", <<>>))]
    /\ UNCHANGED <<tableExists, rows, seq, boot, hist>>

\* POST /personas, lines 168-174 and the handlers of lines 178-186.
crear_persona(w) ==
    /\ req[w].pc = "execute" /\ req[w].op = "create"
    /\ LET r == [req[w] EXCEPT !.matched = Present(req[w].body.dni)]
           b == r.body
       IN \/ /\ req' = [req EXCEPT ![w] = RollbackAnd500(r, "OperationalError")]
             /\ UNCHANGED seq
          \/ /\ ~tableExists
             /\ req' = [req EXCEPT ![w] = RollbackAnd500(r, "ProgrammingError")]
             /\ UNCHANGED seq
          \/ /\ tableExists /\ ~FitsInsert(b)
             /\ req' = [req EXCEPT ![w] = RollbackAnd500(r, "DataError")]
             /\ UNCHANGED seq
          \/ /\ tableExists /\ FitsInsert(b)
             /\ seq < MaxSeq
             /\ seq' = NextVal(seq)
             /\ LET new == InsertRow(seq', b)
                IN /\ ~Blocked(w, new.dni)
                   /\ IF UniqueViolation(rows, new.dni)
                      THEN req' = [req EXCEPT ![w] =
                              Close(Respond(Rollback(Raise(r)),
                                    HTTPException(400, "DNI ya existe", "IntegrityError")))]
                      ELSE \/ req' = [req EXCEPT ![w] =
                                     [r EXCEPT !.pc = "commit", !.tx = "intrans",
                                               !.write = [del |-> {}, add |-> {new}],
                                               !.result = <<new>>]]
                           \/ req' = [req EXCEPT ![w] =
                                     RollbackAnd500(r, "OperationalError")]
    /\ UNCHANGED <<tableExists, rows, boot, hist>>

\* GET /personas
listar_personas(w) ==
    /\ req[w].pc = "execute" /\ req[w].op = "list"
    /\ \/ req' = [req EXCEPT ![w] = Only500(@, "OperationalError")]
       \/ /\ ~tableExists
          /\ req' = [req EXCEPT ![w] = Only500(@, "ProgrammingError")]
       \/ /\ tableExists
          /\ LET personas == SortById(rows)
             IN req' = [req EXCEPT ![w] =
                    Close(Respond([@ EXCEPT !.tx = "intrans", !.result = personas],
                                  Ok("ok", personas)))]
    /\ UNCHANGED <<tableExists, rows, seq, boot, hist>>

\* GET /personas/{dni}
obtener_persona_por_dni(w) ==
    /\ req[w].pc = "execute" /\ req[w].op = "get"
    /\ LET found == Matching(rows, req[w].dni)
           r == [req[w] EXCEPT !.matched = Present(req[w].dni)]
       IN \/ req' = [req EXCEPT ![w] = Only500(r, "OperationalError")]
          \/ /\ ~tableExists
             /\ req' = [req EXCEPT ![w] = Only500(r, "ProgrammingError")]
          \/ /\ tableExists
             /\ LET res == SortById(found)
                    q == [r EXCEPT !.tx = "intrans", !.result = res]
                IN req' = [req EXCEPT ![w] =
                       IF res = <<>>
                       THEN Close(Respond(q, HTTPException(404, "Persona no encontrada", "none")))
                       ELSE Close(Respond(q, Ok("ok", <<Head(res)>>)))]
    /\ UNCHANGED <<tableExists, rows, seq, boot, hist>>

\* PUT /personas/{dni}, lines 231-241 and the handlers of lines 245-250.
actualizar_persona(w) ==
    /\ req[w].pc = "execute" /\ req[w].op = "update"
    /\ LET found == Matching(rows, req[w].dni)
           r == [req[w] EXCEPT !.matched = Present(req[w].dni)]
       IN \/ req' = [req EXCEPT ![w] = RollbackAnd500(r, "OperationalError")]
          \/ /\ ~tableExists
             /\ req' = [req EXCEPT ![w] = RollbackAnd500(r, "ProgrammingError")]
          \/ /\ tableExists /\ ~FitsUpdate(r.body)
             /\ req' = [req EXCEPT ![w] = RollbackAnd500(r, "DataError")]
          \/ /\ tableExists /\ FitsUpdate(r.body) /\ ~Blocked(w, r.dni)
             /\ LET upd == {UpdateRow(o, r.body) : o \in found}
                    q == [r EXCEPT !.tx = "intrans", !.result = SortById(upd)]
                IN IF found = {}
                   THEN req' = [req EXCEPT ![w] =
                           Close(Respond(q, HTTPException(404, "Persona no encontrada", "none")))]
                   ELSE \/ req' = [req EXCEPT ![w] =
                                [q EXCEPT !.pc = "commit",
                                          !.write = [del |-> found, add |-> upd]]]
                        \/ req' = [req EXCEPT ![w] = RollbackAnd500(r, "OperationalError")]
    /\ UNCHANGED <<tableExists, rows, seq, boot, hist>>

\* DELETE /personas/{dni}, lines 258-261 and the handlers of lines 265-270.
eliminar_persona(w) ==
    /\ req[w].pc = "execute" /\ req[w].op = "delete"
    /\ LET found == Matching(rows, req[w].dni)
           r == [req[w] EXCEPT !.matched = Present(req[w].dni)]
       IN \/ req' = [req EXCEPT ![w] = RollbackAnd500(r, "OperationalError")]
          \/ /\ ~tableExists
             /\ req' = [req EXCEPT ![w] = RollbackAnd500(r, "ProgrammingError")]
          \/ /\ tableExists /\ ~Blocked(w, r.dni)
             /\ LET q == [r EXCEPT !.tx = "intrans"]
                IN IF Cardinality(found) = 0
                   THEN req' = [req EXCEPT ![w] =
                           Close(Respond(q, HTTPException(404, "Persona no encontrada", "none")))]
                   ELSE req' = [req EXCEPT ![w] =
                           [q EXCEPT !.pc = "commit",
                                     !.write = [del |-> found, add |-> {}]]]
    /\ UNCHANGED <<tableExists, rows, seq, boot, hist>>

\* connection.commit() of crear_persona (175), actualizar_persona (243) and
\* eliminar_persona (263), with the return that follows it, or the handler
\* of psycopg2.Error when the commit raises.
commit(w) ==
    /\ req[w].pc = "commit"
    /\ LET r == req[w]
       IN \/ /\ rows' = ApplyWrite(rows, r.write)
             /\ req' = [req EXCEPT ![w] =
                    Close(Respond([r EXCEPT !.tx = "committed", !.write = NoWrite],
                                  IF r.op = "delete"
                                  THEN Ok("eliminada exitosamente", <<>>)
                                  ELSE Ok("ok", <<Head(r.result)>>)))]
          \/ /\ req' = [req EXCEPT ![w] = RollbackAnd500(r, "OperationalError")]
             /\ UNCHANGED rows
    /\ UNCHANGED <<tableExists, seq, boot>>

\* What the arrival of a request adds to the history.
Arrive == before' = rows

\* What a step of commit(w) adds to the history.
Track(w) ==
    LET r == req[w]
    IN /\ IF req'[w].resp.status = 200
          THEN /\ createOrder' = IF r.op = "create"
                                 THEN Append(createOrder, Head(req'[w].resp.body).id)
                                 ELSE createOrder
               /\ deleted' = IF r.op = "delete" THEN deleted \cup {r.dni}
                             ELSE IF r.op = "create"
                                  THEN deleted \ {Head(req'[w].resp.body).dni}
                                  ELSE deleted
               /\ lastCreate' = IF r.op = "create"
                                THEN <<[body |-> r.body, resp |-> Head(req'[w].resp.body)]>>
                                ELSE <<>>
          ELSE UNCHANGED <<createOrder, deleted, lastCreate>>
       /\ UNCHANGED before

\* The response has been sent; the worker takes the next request.
Finish(w) ==
    /\ req[w].pc = "done"
    /\ req' = [req EXCEPT ![w] = Idle]
    /\ UNCHANGED <<tableExists, rows, seq, boot, hist>>

Serve(w) ==
    \/ health_check(w)
    \/ crear_persona(w)
    \/ listar_personas(w)
    \/ obtener_persona_por_dni(w)
    \/ actualizar_persona(w)
    \/ eliminar_persona(w)
    \/ Finish(w)

\* Requests served concurrently by the workers (the history is not kept).
Next ==
    \/ init_database
    \/ \E w \in Workers :
          \/ Request(w, RacePaths, RaceBodies) /\ UNCHANGED before
          \/ Serve(w)
          \/ commit(w) /\ UNCHANGED hist

Spec == Init /\ [][Next]_vars

\* Requests served one after another by a single worker, with the history.
NextSeq ==
    \/ init_database
    \/ Request("w1", Paths, PersonaCreate) /\ Arrive
    \/ Serve("w1")
    \/ commit("w1") /\ Track("w1")

SeqSpec == Init /\ [][NextSeq]_vars
\* =================================================================== claims

Done(w, op) == req[w].pc = "done" /\ req[w].op = op

\* The request met a failure of the store that no argument decides: no
\* connection, a failing server or network, or the relation missing.
EnvFault(w) == req[w].resp.exc \in {"OperationalError", "ProgrammingError"}

Unique(rs) == \A r1, r2 \in rs : r1.dni = r2.dni => r1 = r2

\* The rows as they would be with the writes of every open transaction applied.
WithOpenWrites ==
    (rows \ UNION {req[w].write.del : w \in Workers})
        \cup UNION {req[w].write.add : w \in Workers}

\* C1: in every reachable state, under any interleaving of concurrent create,
\* update and delete requests, at most one committed row has a given dni, and
\* the open transactions never hold writes that would commit a second one.
C1_UniqueDni == Unique(rows) /\ Unique(WithOpenWrites)

\* Two creates of the same dni have both ended: one with 200 and its row
\* committed, the other with 400.
C1_Witness ==
    \E w, v \in Workers :
        /\ w # v /\ Done(w, "create") /\ Done(v, "create")
        /\ req[w].body.dni = req[v].body.dni
        /\ req[w].resp.status = 200 /\ req[v].resp.status = 400
        /\ Head(req[w].resp.body) \in rows

\* C2 as stated: a create whose dni is that of an existing persona ends with
\* 400 "DNI ya existe" and the committed rows are those before the request.
C2_Original ==
    \A w \in Workers :
        Done(w, "create") /\ req[w].matched /\ ~EnvFault(w)
            => /\ req[w].resp.status = 400
               /\ req[w].resp.detail = "DNI ya existe"
               /\ rows = before

\* C2 as amended: a create whose dni is that of an existing persona never
\* succeeds and leaves the committed rows as they were; it ends with 400
\* "DNI ya existe" when the columns accept its values and the store does not
\* fail (a value the columns refuse ends it with 500).
C2_DuplicateCreate ==
    \A w \in Workers :
        Done(w, "create") /\ req[w].matched
            => /\ rows = before
               /\ req[w].resp.status # 200
               /\ ~EnvFault(w) /\ FitsInsert(req[w].body)
                    => /\ req[w].resp.status = 400
                       /\ req[w].resp.detail = "DNI ya existe"

C2_Witness ==
    \E w \in Workers :
        /\ Done(w, "create") /\ req[w].matched /\ req[w].resp.status = 400
        /\ rows = before /\ rows # {}

\* The id of the record a create returned is positive, is the last id of the
\* history of creates and occurs nowhere before in it.
FreshId(w) ==
    LET id == Head(req[w].resp.body).id
        n == Len(createOrder)
    IN /\ id > 0
       /\ n > 0
       /\ createOrder[n] = id
       /\ \A i \in 1..(n - 1) : createOrder[i] # id

\* C3 as stated: a create whose dni is not in the store succeeds, and its id
\* is a positive integer never assigned before.
C3_Original ==
    \A w \in Workers :
        Done(w, "create") /\ ~req[w].matched /\ ~EnvFault(w)
            => req[w].resp.status = 200 /\ FreshId(w)

\* C3 as amended: a create whose dni is at most 20 characters and not in the
\* store, and whose other values the columns accept, succeeds unless the
\* store fails; every create that succeeds returns an id that is a positive
\* integer never assigned before, also after failed creates and deletes.
C3_CreateFreshId ==
    /\ \A w \in Workers :
          /\ Done(w, "create") /\ req[w].resp.status = 200 => FreshId(w)
          /\ /\ Done(w, "create") /\ ~req[w].matched /\ ~EnvFault(w)
             /\ Len(req[w].body.dni) <= DniWidth /\ FitsInsert(req[w].body)
             => req[w].resp.status = 200
    /\ \A i, j \in 1..Len(createOrder) : createOrder[i] = createOrder[j] => i = j

\* A create succeeded with id 3 after an earlier create (id 1), a failed
\* create (id 2 was drawn and not assigned) and a delete (one row is left).
C3_Witness ==
    \E w \in Workers :
        /\ Done(w, "create") /\ req[w].resp.status = 200
        /\ createOrder = <<1, 3>>
        /\ Cardinality(rows) = 1
Lookups == {"get", "update", "delete"}

\* C4 as stated: for a dni that matches no persona, get, update and delete
\* each end with 404 and the committed rows are those before the request.
C4_Original ==
    \A w \in Workers :
        req[w].pc = "done" /\ req[w].op \in Lookups /\ ~req[w].matched /\ ~EnvFault(w)
            => req[w].resp.status = 404 /\ rows = before

\* C4 as amended: for a dni that matches no persona, get, update and delete
\* never succeed and leave the committed rows as they were; get and delete
\* end with 404, and so does an update whose body the columns accept, unless
\* the store fails (an update whose body the columns refuse ends with 500).
C4_NotFound ==
    \A w \in Workers :
        req[w].pc = "done" /\ req[w].op \in Lookups /\ ~req[w].matched
            => /\ rows = before
               /\ req[w].resp.status # 200
               /\ ~EnvFault(w) /\ (req[w].op = "update" => FitsUpdate(req[w].body))
                    => /\ req[w].resp.status = 404
                       /\ req[w].resp.detail = "Persona no encontrada"

\* An update of a dni that is not in a non-empty store has ended with 404.
C4_Witness ==
    \E w \in Workers :
        /\ Done(w, "update") /\ ~req[w].matched /\ req[w].resp.status = 404
        /\ rows # {} /\ rows = before

\* C5 as stated: a successful update sets nombre, apellido and email of the
\* row whose dni is the path parameter to the values of the body, keeps that
\* row's id and dni and every other row, whatever the body's dni, and returns
\* the row as stored.
C5_Original ==
    \A w \in Workers :
        Done(w, "update") /\ req[w].resp.status = 200
            => \E old \in before :
                  LET new == [id |-> old.id, dni |-> old.dni,
                              nombre |-> req[w].body.nombre,
                              apellido |-> req[w].body.apellido,
                              email |-> req[w].body.email]
                  IN /\ old.dni = req[w].dni
                     /\ rows = (before \ {old}) \cup {new}
                     /\ req[w].resp.body = <<new>>

\* The value a column of width n holds after it was assigned v.
StoredAs(s, v, n) == IF Len(v) <= n THEN s = v ELSE s = SubSeq(v, 1, n)

OptStoredAs(s, v, n) == IF v.null THEN s = v ELSE ~s.null /\ StoredAs(s.val, v.val, n)

\* C5 as amended: a successful update replaces the one row whose dni is the
\* path parameter by a row with the same id and dni, keeps every other row,
\* whatever the body's dni, and returns the row as stored; nombre, apellido
\* and email of that row are the values of the body where these are within
\* the column widths, and their first 100, 100 and 255 characters otherwise.
C5_UpdateFrame ==
    \A w \in Workers :
        Done(w, "update") /\ req[w].resp.status = 200
            => \E old \in before :
                  LET new == Head(req[w].resp.body)
                  IN /\ old.dni = req[w].dni
                     /\ new.id = old.id /\ new.dni = old.dni
                     /\ StoredAs(new.nombre, req[w].body.nombre, NombreWidth)
                     /\ StoredAs(new.apellido, req[w].body.apellido, ApellidoWidth)
                     /\ OptStoredAs(new.email, req[w].body.email, EmailWidth)
                     /\ rows = (before \ {old}) \cup {new}
                     /\ req[w].resp.body = <<new>>

\* An update whose body carries another dni than the path has succeeded and
\* changed the row, with another row in the store.
C5_Witness ==
    \E w \in Workers :
        /\ Done(w, "update") /\ req[w].resp.status = 200
        /\ req[w].body.dni # req[w].dni
        /\ rows # before
        /\ Cardinality(rows) = 2

\* What get answers is what the committed rows hold under the dni asked for,
\* and a dni whose last committed change was a delete is in no row.
C6_GetSeesStore ==
    /\ \A d \in deleted : ~Present(d)
    /\ \A w \in Workers :
          Done(w, "get") /\ ~EnvFault(w)
              => /\ req[w].resp.status = 404 <=> ~Present(req[w].dni)
                 /\ req[w].resp.status # 404
                      => /\ req[w].resp.status = 200
                         /\ Head(req[w].resp.body) \in rows
                         /\ Head(req[w].resp.body).dni = req[w].dni

\* A dni leaves the committed rows only by the commit of a successful delete
\* of that dni, and enters them only by the commit of a successful create
\* that stores it.
C6_OnlyDeleteRemoves ==
    \A d \in {r.dni : r \in rows \cup rows'} :
        /\ Present(d) /\ ~Present(d)'
             => \E w \in Workers :
                   /\ req[w].pc = "commit" /\ req[w].op = "delete" /\ req[w].dni = d
                   /\ req'[w].resp.status = 200
        /\ ~Present(d) /\ Present(d)'
             => \E w \in Workers :
                   /\ req[w].pc = "commit" /\ req[w].op = "create"
                   /\ req'[w].resp.status = 200
                   /\ Head(req'[w].resp.body).dni = d

CreatedAt(id) == CHOOSE k \in 1..Len(createOrder) : createOrder[k] = id

\* C7: list returns every stored persona exactly once, in strictly ascending
\* order of id, which is the order in which the personas were created, also
\* after deletes and failed creates in between.
C7_ListOrder ==
    \A w \in Workers :
        Done(w, "list") /\ req[w].resp.status = 200
            => LET b == req[w].resp.body
               IN /\ {b[i] : i \in 1..Len(b)} = rows
                  /\ Len(b) = Cardinality(rows)
                  /\ \A i, j \in 1..Len(b) : i < j => b[i].id < b[j].id
                  /\ \A i \in 1..Len(b) : \E k \in 1..Len(createOrder) : createOrder[k] = b[i].id
                  /\ \A i, j \in 1..Len(b) : i < j => CreatedAt(b[i].id) < CreatedAt(b[j].id)

\* A list of two personas has been returned although three ids were drawn:
\* a delete or a failed create came in between.
C7_Witness ==
    \E w \in Workers :
        /\ Done(w, "list") /\ req[w].resp.status = 200
        /\ Len(req[w].resp.body) = 2
        /\ seq = 3

\* C8 as stated: after a create that succeeded, a get by the dni of the
\* create request, with no update or delete in between, returns the record
\* the create returned.
C8_Original ==
    \A w \in Workers :
        /\ Done(w, "get") /\ ~EnvFault(w) /\ lastCreate # <<>>
        /\ req[w].dni = lastCreate[1].body.dni
        => /\ req[w].resp.status = 200
           /\ req[w].resp.body = <<lastCreate[1].resp>>

\* C8 as amended: after a create that succeeded, a get by the dni of the
\* record the create returned, with no update or delete in between, returns
\* that record, also when email was omitted; that dni is the dni of the
\* create request when this is at most 20 characters.
C8_RoundTrip ==
    /\ \A w \in Workers :
          /\ Done(w, "get") /\ ~EnvFault(w) /\ lastCreate # <<>>
          /\ req[w].dni = lastCreate[1].resp.dni
          => /\ req[w].resp.status = 200
             /\ req[w].resp.body = <<lastCreate[1].resp>>
    /\ lastCreate # <<>> /\ Len(lastCreate[1].body.dni) <= DniWidth
          => lastCreate[1].resp.dni = lastCreate[1].body.dni

\* A get has returned the record of the create before it, whose email was
\* omitted, with another persona in the store.
C8_Witness ==
    \E w \in Workers :
        /\ Done(w, "get") /\ req[w].resp.status = 200 /\ lastCreate # <<>>
        /\ req[w].dni = lastCreate[1].body.dni
        /\ lastCreate[1].body.email = None
        /\ Cardinality(rows) = 2

\* C9: every operation that acquired a connection (the handlers and the
\* startup initialization) has released it when it ends, on every exit path.
C9_ConnectionsReleased ==
    /\ \A w \in Workers : req[w].pc = "done" => req[w].conn # "open"
    /\ boot.pc = "done" => boot.conn # "open"

Mutating == {"create", "update", "delete"}

\* A mutating request that has ended committed exactly if it succeeded, and
\* rolled back if the store raised an error on its connection.
C10_CommitOrRollback ==
    \A w \in Workers :
        req[w].pc = "done" /\ req[w].op \in Mutating
            => /\ req[w].resp.status = 200 <=> req[w].tx = "committed"
               /\ req[w].resp.exc # "none" /\ req[w].conn # "none"
                    => req[w].tx = "rolledback"
               /\ req[w].write = NoWrite

\* The committed rows change only in the step in which a mutating request
\* commits and succeeds, and then by that request's writes alone.
C10_OnlySuccessChanges ==
    rows' # rows
        => \E w \in Workers :
              /\ req[w].pc = "commit" /\ req[w].op \in Mutating
              /\ req'[w].pc = "done" /\ req'[w].resp.status = 200
              /\ rows' = ApplyWrite(rows, req[w].write)
              /\ \A v \in Workers \ {w} : req'[v] = req[v]

\* C10: a mutating operation commits exactly when it returns success and
\* rolls back on a store error before the HTTP error is raised, so that a
\* mutating request that ends with an error leaves the committed rows as
\* they were.
C10_ErrorsLeaveStore == []C10_CommitOrRollback /\ [][C10_OnlySuccessChanges]_vars

\* An update that matched a row has ended with 500 and rolled back, and the
\* row is as it was, while the other worker's update is still uncommitted.
C10_Witness ==
    \E w, v \in Workers :
        /\ w # v
        /\ Done(w, "update") /\ req[w].matched /\ req[w].resp.status = 500
        /\ req[w].tx = "rolledback" /\ FitsUpdate(req[w].body)
        /\ \E r \in rows : r.dni = req[w].dni /\ r # UpdateRow(r, req[w].body)
        /\ req[v].pc = "commit" /\ req[v].op = "update"
====
